---- MODULE Spec2Model ----
(***************************************************************************)
(* Verification model of the 3d-matching registration pipeline:            *)
(*   Ply construction (src/ply/ply.py), RANSAC global registration         *)
(*   (src/matcher/ransac.py), ICP refinement (src/matcher/icp.py) and the  *)
(*   BenchmarkResults observation sink (src/utils/timer.py).               *)
(*                                                                         *)
(* The Python functions are thin wrappers; the numeric work is done by the *)
(* Open3D routines they call.  Each such routine is modelled at its call   *)
(* site by what the routine does on the inputs the model enumerates.       *)
(*                                                                         *)
(* Geometry: clouds are collinear (all points on the x axis) with integer  *)
(* coordinates.  On such clouds a rigid motion acts as x |-> s*x + t with  *)
(* s in {1,-1} (s = -1 is the half turn about a perpendicular axis), and    *)
(* the least-squares alignment of point pairs is computed exactly.         *)
(* Raw coordinates are multiples of Step so that every voxel mean and every *)
(* three-pair translation is an integer.                                   *)
(***************************************************************************)
EXTENDS Integers, Sequences, FiniteSets, TLC

\* ---------------------------------------------------------------- bounds
MaxPts == 3       \* points in a raw input cloud
MaxCoord == 2     \* raw coordinates are 0..MaxCoord steps
MaxIter == 2      \* largest `iteration` argument handed to RANSAC
MaxShift == 1     \* ICP translation is kept within MaxShift steps of its start

\* ------------------------------------------------------- integer helpers
RECURSIVE Gcd(_, _)
Gcd(a, b) == IF b = 0 THEN a ELSE Gcd(b, a % b)

RECURSIVE LcmUpTo(_)
LcmUpTo(n) == IF n <= 1 THEN 1 ELSE (LcmUpTo(n - 1) * n) \div Gcd(LcmUpTo(n - 1), n)

Step == LcmUpTo(MaxPts) * LcmUpTo(MaxPts)

Abs(x) == IF x < 0 THEN 0 - x ELSE x

RECURSIVE SeqSum(_)
SeqSum(s) == IF s = << >> THEN 0 ELSE Head(s) + SeqSum(Tail(s))

SetMin(S) == CHOOSE x \in S : \A y \in S : x <= y

Range(s) == {s[i] : i \in 1..Len(s)}

\* ascending enumeration of a finite set of integers
RECURSIVE SortedSeq(_)
SortedSeq(S) == IF S = {} THEN << >> ELSE <<SetMin(S)>> \o SortedSeq(S \ {SetMin(S)})

Put(d, k, x) == [y \in DOMAIN d \cup {k} |-> IF y = k THEN x ELSE d[y]]

\* ------------------------------------------------------------ input sets
Coords == {c * Step : c \in 0..MaxCoord}

\* the raw clouds a caller may supply: 0..MaxPts distinct points, listed left
\* to right (the empty cloud included)
Clouds == {SortedSeq(S) : S \in {X \in SUBSET Coords : Cardinality(X) <= MaxPts}}

\* voxel_size values: one invalid, one that keeps distinct raw points apart
\* (4/3 of the raw spacing), one coarse enough to merge neighbours
VoxelSizes == {0, (4 * Step) \div 3, 4 * Step}

\* timer readings (time.perf_counter differences), in clock ticks
Elapsed == {1}

\* ------------------------------------------------- rigid transformations
\* x |-> s*x + t
Identity == [s |-> 1, t |-> 0]

Apply(T, x) == T.s * x + T.t

\* (U o T)(x) = U(T(x))
Compose(U, T) == [s |-> U.s * T.s, t |-> U.s * T.t + U.t]

TransformCloud(T, pts) == [i \in 1..Len(pts) |-> Apply(T, pts[i])]

\* ------------------------------------------------------ voxel_down_sample
\* PointCloud.voxel_down_sample(voxel_size), called for voxel_size > 0:
\* the grid is anchored half a voxel below the cloud's minimum bound, a
\* point's voxel index is floor((p - voxel_min_bound) / voxel_size), and
\* every occupied voxel yields the average of its points.
VoxelMinBound(pts, v) == (IF pts = << >> THEN 0 ELSE SetMin(Range(pts))) - (v \div 2)

\* a key over cells twice as wide
VoxelKey_DoubleCell(pts, v, p) == (p - VoxelMinBound(pts, v)) \div (2 * v)

VoxelKey(pts, v, p) == (p - VoxelMinBound(pts, v)) \div v

VoxelGroup(pts, v, k) == SelectSeq(pts, LAMBDA p : VoxelKey(pts, v, p) = k)

VoxelDownSample(pts, v) ==
    LET keys == SortedSeq({VoxelKey(pts, v, pts[i]) : i \in 1..Len(pts)})
    IN  [j \in 1..Len(keys) |->
            SeqSum(VoxelGroup(pts, v, keys[j])) \div Len(VoxelGroup(pts, v, keys[j]))]

\* ------------------------------------------------------ BenchmarkResults
\* benchmark_results is None (present = FALSE) or a BenchmarkResults object
\* holding three dicts keyed by label.
NoSink == [present |-> FALSE, timings |-> << >>, fitness_scores |-> << >>,
           inlier_rmse |-> << >>]

EmptySink == [NoSink EXCEPT !.present = TRUE]

\* a sink that already holds entries of an earlier run
UsedSink == [present |-> TRUE,
             timings |-> ("ICP" :> 7 @@ "RANSAC (with FPFH)" :> 7),
             fitness_scores |-> ("ICP" :> [num |-> 1, den |-> 1]),
             inlier_rmse |-> ("RANSAC (without FPFH)" :> [err2 |-> 4, cnt |-> 1])]

Sinks == {NoSink, EmptySink, UsedSink}

add_timing(b, name, elapsed) == [b EXCEPT !.timings = Put(@, name, elapsed)]

add_fitness(b, name, fitness) == [b EXCEPT !.fitness_scores = Put(@, name, fitness)]

add_rmse(b, name, rmse) == [b EXCEPT !.inlier_rmse = Put(@, name, rmse)]

\* ------------------------------------------------------------------- Ply
\* Arguments of Ply(path, voxel_size, use_fpfh=..., pcd=...): the path is
\* None, names no file, names a file that is not *.ply, or names a .ply file
\* holding `file`; pcd is None or a cloud.
PlyArgs ==
    {[path |-> p, file |-> << >>, pcdGiven |-> FALSE, pcd |-> << >>] :
        p \in {"None", "missing", "notply"}}
    \cup {[path |-> "ply", file |-> c, pcdGiven |-> FALSE, pcd |-> << >>] : c \in Clouds}
    \cup {[path |-> p, file |-> << >>, pcdGiven |-> TRUE, pcd |-> c] :
        p \in {"None", "missing"}, c \in Clouds}

Unbuilt == [state |-> "unbuilt", err |-> "", name |-> "unknown", pcd |-> << >>,
            pcd_down |-> << >>, has_fpfh |-> FALSE, fpfh_time |-> 0,
            stages |-> << >>]

\* the object after the constructor raised `err`, having completed `stages`
Failed(err, stages) == [Unbuilt EXCEPT !.state = "failed", !.err = err, !.stages = stages]

\* Ply._load: an empty file is rejected
LoadFails(file) == file = << >>

\* Ply._preprocess / the use_fpfh=False branch / Ply._add_normals, on the
\* cloud the constructor settled on.  voxel_down_sample raises for
\* voxel_size <= 0; compute_fpfh_feature raises for a cloud without normals,
\* which is what estimate_normals leaves of an empty cloud.
Preprocess(name, pcd, v, use_fpfh, bench, el) ==
    IF v <= 0
    THEN [ply |-> Failed("RuntimeError", << >>), bench |-> bench]
    ELSE
    LET down == VoxelDownSample(pcd, v)
    IN  IF use_fpfh /\ down = << >>
        THEN [ply |-> Failed("RuntimeError", <<"voxel_down_sample", "estimate_normals">>),
              bench |-> bench]
        ELSE [ply |-> [state |-> "built", err |-> "", name |-> name, pcd |-> pcd,
                       pcd_down |-> down, has_fpfh |-> use_fpfh,
                       fpfh_time |-> IF use_fpfh THEN el ELSE 0,
                       stages |-> IF use_fpfh
                                  THEN <<"voxel_down_sample", "estimate_normals",
                                         "compute_fpfh_feature", "add_normals">>
                                  ELSE <<"voxel_down_sample", "estimate_normals",
                                         "add_normals">>],
              bench |-> IF use_fpfh /\ bench.present
                        THEN add_timing(bench, "FPFH (" \o name \o ")", el)
                        ELSE bench]

\* Ply.__init__
PlyConstruct(name, arg, v, use_fpfh, bench, el) ==
    IF arg.pcdGiven
    THEN Preprocess(name, arg.pcd, v, use_fpfh, bench, el)
    ELSE IF arg.path # "None"
    THEN IF arg.path = "missing"
         THEN [ply |-> Failed("FileNotFoundError", << >>), bench |-> bench]
         ELSE IF arg.path = "notply"
         THEN [ply |-> Failed("TypeError", << >>), bench |-> bench]
         ELSE IF LoadFails(arg.file)
         THEN [ply |-> Failed("ValueError", << >>), bench |-> bench]
         ELSE Preprocess(name, arg.file, v, use_fpfh, bench, el)
    ELSE [ply |-> Failed("ValueError", << >>), bench |-> bench]

\* ---------------------------------------------------- registration result
\* fitness is the fraction num/den, inlier_rmse is sqrt(err2/cnt).
DefaultResult == [transformation |-> Identity,
                  fitness |-> [num |-> 0, den |-> 1],
                  inlier_rmse |-> [err2 |-> 0, cnt |-> 1],
                  correspondence_set |-> << >>]

\* a distance threshold mult * voxel_size, mult = num/den
Thresh(num, den, v) == [num |-> num * v, den |-> den]

RansacThresh(v) == Thresh(3, 2, v)      \* voxel_size * 1.5

IcpThresh(v) == Thresh(2, 5, v)         \* voxel_size * 0.4

Positive(thr) == thr.num > 0

StrictlyWithin(d, thr) == thr.den * d < thr.num

NotBeyond(d, thr) == thr.den * d <= thr.num

\* the radius test of KDTreeFlann.search_hybrid: squared distance below
\* radius^2
InRadius(d, thr) == StrictlyWithin(d, thr)

Dist(x, y) == Abs(x - y)

\* distance from x to the nearest point of pts (pts non-empty)
NearestDist(x, pts) == SetMin({Dist(x, pts[j]) : j \in 1..Len(pts)})

\* the target indices at nearest distance from x
NearestSet(x, pts) == {j \in 1..Len(pts) : Dist(x, pts[j]) = NearestDist(x, pts)}

\* GetRegistrationResultAndCorrespondences(source, target, ...), source
\* being the already transformed cloud: every source point with a target
\* point inside the radius contributes one correspondence and its squared
\* distance.  (Among equidistant nearest targets the model records the
\* lowest index; nothing modelled reads the target index back.)
IsInlier(p, target, thr) == target # << >> /\ InRadius(NearestDist(p, target), thr)

SquaredError(p, target, thr) ==
    IF IsInlier(p, target, thr) THEN NearestDist(p, target) * NearestDist(p, target) ELSE 0

Correspondences(pcd, target, thr) ==
    SelectSeq([i \in 1..Len(pcd) |->
                  <<i, IF target = << >> THEN 0 ELSE SetMin(NearestSet(pcd[i], target))>>],
              LAMBDA c : IsInlier(pcd[c[1]], target, thr))

\* the same with the fitness taken over the target's size
GetRegistrationResult_OverTarget(pcd, target, thr, T) ==
    LET corres == Correspondences(pcd, target, thr)
        error2 == SeqSum([i \in 1..Len(pcd) |-> SquaredError(pcd[i], target, thr)])
    IN  IF ~Positive(thr) \/ corres = << >>
        THEN [DefaultResult EXCEPT !.transformation = T]
        ELSE [transformation |-> T,
              fitness |-> [num |-> Len(corres), den |-> Len(target)],
              inlier_rmse |-> [err2 |-> error2, cnt |-> Len(corres)],
              correspondence_set |-> corres]

GetRegistrationResult(pcd, target, thr, T) ==
    LET corres == Correspondences(pcd, target, thr)
        error2 == SeqSum([i \in 1..Len(pcd) |-> SquaredError(pcd[i], target, thr)])
    IN  IF ~Positive(thr) \/ corres = << >>
        THEN [DefaultResult EXCEPT !.transformation = T]
        ELSE [transformation |-> T,
              fitness |-> [num |-> Len(corres), den |-> Len(pcd)],
              inlier_rmse |-> [err2 |-> error2, cnt |-> Len(corres)],
              correspondence_set |-> corres]

FitnessLess(a, b) == a.fitness.num * b.fitness.den < b.fitness.num * a.fitness.den

FitnessEq(a, b) == a.fitness.num * b.fitness.den = b.fitness.num * a.fitness.den

RmseLess(a, b) == a.inlier_rmse.err2 * b.inlier_rmse.cnt < b.inlier_rmse.err2 * a.inlier_rmse.cnt

RmseEq(a, b) == a.inlier_rmse.err2 * b.inlier_rmse.cnt = b.inlier_rmse.err2 * a.inlier_rmse.cnt

\* RegistrationResult::IsBetterRANSACThan
IsBetterRANSACThan(a, b) == FitnessLess(b, a) \/ (FitnessEq(a, b) /\ RmseLess(a, b))

\* ------------------------------------------------------------------ RANSAC
RECURSIVE Pow(_, _)
Pow(b, e) == IF e = 0 THEN 1 ELSE b * Pow(b, e - 1)

\* TransformationEstimationPointToPoint(False).compute_transformation on the
\* sampled pairs (the Umeyama least-squares fit without scaling): the
\* rotation follows the sign of the cross-covariance, the translation maps
\* the source centroid onto the target centroid.  ps, pt list the sampled
\* source and target coordinates.
CrossCov9(ps, pt) ==
    SeqSum([k \in 1..Len(ps) |->
              (Len(ps) * ps[k] - SeqSum(ps)) * (Len(pt) * pt[k] - SeqSum(pt))])

ComputeTransformation(ps, pt) ==
    LET sgn == IF CrossCov9(ps, pt) < 0 THEN 0 - 1 ELSE 1
    IN  [s |-> sgn, t |-> (SeqSum(pt) - sgn * SeqSum(ps)) \div Len(ps)]

\* CorrespondenceCheckerBasedOnEdgeLength(0.9)
EdgeLengthCheck(ps, pt) ==
    \A i, j \in 1..Len(ps) :
        i < j => /\ ~(10 * Dist(ps[i], ps[j]) < 9 * Dist(pt[i], pt[j]))
                 /\ ~(10 * Dist(pt[i], pt[j]) < 9 * Dist(ps[i], ps[j]))

\* CorrespondenceCheckerBasedOnDistance(dist_thresh)
DistanceCheck(ps, pt, T, thr) ==
    \A k \in 1..Len(ps) : NotBeyond(Dist(Apply(T, ps[k]), pt[k]), thr)

\* EvaluateInlierCorrespondenceRatio: the pool entries the transform brings
\* strictly inside the threshold
InlierCorres(source, target, corres, T, thr) ==
    Cardinality({k \in 1..Len(corres) :
        StrictlyWithin(Dist(Apply(T, source[corres[k][1]]), target[corres[k][2]]), thr)})

\* RANSACConvergenceCriteria(iteration, 0.999): the iteration estimate
\* ceil(log(1 - 0.999) / log(1 - w^3)) for inlier ratio w = n/m, when it is
\* below the current estimate K; K otherwise.  In integers: the least k with
\* 1000 * (m^3 - n^3)^k <= m^(3k).  (0 < n <= m; n = m gives 0.)
EstimateK(n, m, K) ==
    IF n = m THEN (IF 0 < K THEN 0 ELSE K)
    ELSE LET ks == {k \in 1..(K - 1) :
                      1000 * Pow(Pow(m, 3) - Pow(n, 3), k) <= Pow(Pow(m, 3), k)}
         IN  IF ks = {} THEN K ELSE SetMin(ks)

\* a pool that pairs a source point with any target point
NearestPools_AnyTarget(source, target) ==
    {[i \in 1..Len(source) |-> <<i, f[i]>>] : f \in [1..Len(source) -> 1..Len(target)]}

\* a pool that keeps the first source point of every target point only
NearestPools_OneToOne(source, target) ==
    {SelectSeq([i \in 1..Len(source) |-> <<i, f[i]>>],
               LAMBDA c : \A k \in 1..(c[1] - 1) : f[k] # c[2]) :
        f \in {g \in [1..Len(source) -> 1..Len(target)] :
                  \A i \in 1..Len(source) : g[i] \in NearestSet(source[i], target)}}

\* the correspondences of global_registration_without_fpfh: entry i pairs
\* source point i with idx[0] of search_knn_vector_3d(point, 1), a target
\* point nearest to it (any of them when several are equally near)
NearestPools(source, target) ==
    {[i \in 1..Len(source) |-> <<i, f[i]>>] :
        f \in {g \in [1..Len(source) -> 1..Len(target)] :
                  \A i \in 1..Len(source) : g[i] \in NearestSet(source[i], target)}}

\* Descriptor matching.  The nearest target descriptor of each source point
\* (and the nearest source descriptor of each target point) is an input of
\* the model: it enumerates the index-aligned, the reversed and the collapsed
\* matching of n points into m (m >= 1).
FeatureMatchings(n, m) ==
    {[i \in 1..n |-> IF i <= m THEN i ELSE m],
     [i \in 1..n |-> IF m - i + 1 >= 1 THEN m - i + 1 ELSE 1],
     [i \in 1..n |-> 1]}

\* registration_ransac_based_on_feature_matching with mutual_filter=True:
\* the pool is the mutual matches when there are at least 3 * ransac_n of
\* them, and every source point's match otherwise
MutualFilter(ij, ji) ==
    LET all == [i \in 1..Len(ij) |-> <<i, ij[i]>>]
        mutual == SelectSeq(all, LAMBDA c : ji[c[2]] = c[1])
    IN  IF Len(mutual) >= 3 * 3 THEN mutual ELSE all

FeaturePools(source, target) ==
    IF source = << >> \/ target = << >> THEN {<< >>}
    ELSE {MutualFilter(ij, ji) : ij \in FeatureMatchings(Len(source), Len(target)),
                                 ji \in FeatureMatchings(Len(target), Len(source))}

\* the coordinates a sample of pool entries picks out
SamplePoints(cloud, corres, sample, side) ==
    [k \in 1..Len(sample) |-> cloud[corres[sample[k]][side]]]

\* an entry test that forgets the size of the pool
RansacEnters_AnyPool(corres, thr) == Len(corres) >= 1 /\ thr.num > 0

\* registration_ransac_based_on_correspondence returns an empty result
\* straight away unless there are ransac_n = 3 correspondences and a positive
\* threshold
RansacEnters(corres, thr) == Len(corres) >= 3 /\ Positive(thr)

\* the local state of one registration call
\* (corres, live, est_k, best: RANSAC, with drawn and passed counting the
\* samples drawn and the samples that passed the checkers; init,
\* transformation, cur, backup, stop, degenerate: ICP)
NoCall == [fn |-> "none", max_iteration |-> 0, corres |-> << >>, live |-> FALSE,
           itr |-> 0, est_k |-> 0, best |-> DefaultResult, drawn |-> 0,
           passed |-> 0, benchAtCall |-> NoSink,
           init |-> Identity, transformation |-> Identity, cur |-> DefaultResult,
           backup |-> DefaultResult, stop |-> "", degenerate |-> FALSE]

\* a guard that forgets the target
FeatureUnavailable_SourceOnly(s, t) == ~s.has_fpfh

\* global_registration's guard on the descriptors
FeatureUnavailable(s, t) == ~s.has_fpfh \/ ~t.has_fpfh

\* the sink after the three observations of a finished stage
Observe(bench, label, el, res) ==
    IF bench.present
    THEN add_rmse(add_fitness(add_timing(bench, label, el), label, res.fitness),
                  label, res.inlier_rmse)
    ELSE bench

RansacLabel(fn) ==
    IF fn = "global_registration" THEN "RANSAC (with FPFH)" ELSE "RANSAC (without FPFH)"

\* a tail that returns nothing new for a label the sink already times
RansacFinish_SkipsRecordedLabel(fn, best, bench, el) ==
    IF bench.present /\ RansacLabel(fn) \in DOMAIN bench.timings
    THEN [result |-> DefaultResult, bench |-> bench]
    ELSE [result |-> best, bench |-> Observe(bench, RansacLabel(fn), el, best)]

\* the tail of global_registration / global_registration_without_fpfh
RansacFinish(fn, best, bench, el) ==
    [result |-> best, bench |-> Observe(bench, RansacLabel(fn), el, best)]

\* a loop pass that counts only the samples that improve the best result
RansacStep_CountsImprovements(r, ps, pt, T, res, n, thr) ==
    IF ~(r.itr < r.est_k)
    THEN [r EXCEPT !.itr = @ + 1]
    ELSE IF ~(EdgeLengthCheck(ps, pt) /\ DistanceCheck(ps, pt, T, thr))
    THEN r
    ELSE IF ~IsBetterRANSACThan(res, r.best)
    THEN r
    ELSE [r EXCEPT !.itr = @ + 1, !.drawn = @ + 1, !.passed = @ + 1, !.best = res,
                   !.est_k = EstimateK(n, Len(r.corres), r.est_k)]

\* a loop pass that retains the candidate evaluated last
RansacStep_KeepsLast(r, ps, pt, T, res, n, thr) ==
    IF ~(r.itr < r.est_k)
    THEN [r EXCEPT !.itr = @ + 1]
    ELSE IF ~(EdgeLengthCheck(ps, pt) /\ DistanceCheck(ps, pt, T, thr))
    THEN [r EXCEPT !.itr = @ + 1, !.drawn = @ + 1]
    ELSE [r EXCEPT !.itr = @ + 1, !.drawn = @ + 1, !.passed = @ + 1, !.best = res,
                   !.est_k = EstimateK(n, Len(r.corres), r.est_k)]

\* a loop pass that runs the distance checker only
RansacStep_SkipsEdgeLengthCheck(r, ps, pt, T, res, n, thr) ==
    IF ~(r.itr < r.est_k)
    THEN [r EXCEPT !.itr = @ + 1]
    ELSE IF ~DistanceCheck(ps, pt, T, thr)
    THEN [r EXCEPT !.itr = @ + 1, !.drawn = @ + 1]
    ELSE IF ~IsBetterRANSACThan(res, r.best)
    THEN [r EXCEPT !.itr = @ + 1, !.drawn = @ + 1, !.passed = @ + 1]
    ELSE [r EXCEPT !.itr = @ + 1, !.drawn = @ + 1, !.passed = @ + 1, !.best = res,
                   !.est_k = EstimateK(n, Len(r.corres), r.est_k)]

\* one pass of the RANSAC loop: ps, pt are the sampled points, T the
\* transform estimated from them, res its evaluation on the whole clouds
\* and n the number of pool entries it brings within the threshold
RansacStep(r, ps, pt, T, res, n, thr) ==
    IF ~(r.itr < r.est_k)
    THEN [r EXCEPT !.itr = @ + 1]
    ELSE IF ~(EdgeLengthCheck(ps, pt) /\ DistanceCheck(ps, pt, T, thr))
    THEN [r EXCEPT !.itr = @ + 1, !.drawn = @ + 1]
    ELSE IF ~IsBetterRANSACThan(res, r.best)
    THEN [r EXCEPT !.itr = @ + 1, !.drawn = @ + 1, !.passed = @ + 1]
    ELSE [r EXCEPT !.itr = @ + 1, !.drawn = @ + 1, !.passed = @ + 1, !.best = res,
                   !.est_k = EstimateK(n, Len(r.corres), r.est_k)]

\* --------------------------------------------------------------------- ICP
\* registration_icp is called without a criteria argument: the defaults of
\* ICPConvergenceCriteria apply (relative_fitness = relative_rmse = 1e-6,
\* max_iteration = 30)
IcpMaxIteration == 30

EpsInverse == 1000000

\* |fitness_a - fitness_b| < 1e-6
FitnessDeltaBelowEps(a, b) ==
    EpsInverse * Abs(a.fitness.num * b.fitness.den - b.fitness.num * a.fitness.den)
        < a.fitness.den * b.fitness.den

\* |rmse_a - rmse_b| < 1e-6.  The squares err2/cnt of two different rmse
\* values of the model differ by at least 1/MaxPts^2 while both values stay
\* below the ICP threshold, so they are further apart than 1e-6; the test is
\* equality of the two fractions.
RmseDeltaBelowEps(a, b) == RmseEq(a, b)

\* a break test satisfied by either delta
IcpConverged_EitherDelta(backup, res) ==
    FitnessDeltaBelowEps(backup, res) \/ RmseDeltaBelowEps(backup, res)

\* the break test at the end of an ICP iteration
IcpConverged(backup, res) == FitnessDeltaBelowEps(backup, res) /\ RmseDeltaBelowEps(backup, res)

\* registration_icp rejects a target without normals; Ply._add_normals gives
\* every non-empty cloud normals
IcpRejects(t) == t.pcd = << >>

\* the starting poses handed to refine_registration
InitTransforms == {Identity, [s |-> 0 - 1, t |-> MaxCoord * Step]}

\* an update that uses the increment of a failed solve
PointToPlaneUpdate_KeepsFailedSolve(corres, solved, shift) ==
    IF corres = << >> THEN Identity ELSE [s |-> 1, t |-> shift]

\* TransformationEstimationPointToPlane.compute_transformation: identity
\* when there is no correspondence or the 6x6 normal equations cannot be
\* solved (solved = FALSE); otherwise the solved increment, which the model
\* takes from its input `shift`
PointToPlaneUpdate(corres, solved, shift) ==
    IF corres = << >> \/ ~solved THEN Identity ELSE [s |-> 1, t |-> shift]

\* the increments the model enumerates: the pose stays within MaxShift steps
\* above the starting pose
Shifts(T, init) == {d \in {0 - Step, 0, Step} :
                      init.t <= T.t + d /\ T.t + d <= init.t + MaxShift * Step}

\* one pass of the ICP loop
IcpStep(r, source, target, thr, solved, shift) ==
    LET update == PointToPlaneUpdate(r.cur.correspondence_set, solved, shift)
        T == Compose(update, r.transformation)
        res == GetRegistrationResult(TransformCloud(T, source), target, thr, T)
    IN  [r EXCEPT !.itr = @ + 1,
                  !.transformation = T,
                  !.backup = r.cur,
                  !.cur = res,
                  !.degenerate = (r.cur.correspondence_set # << >> /\ ~solved),
                  !.stop = IF IcpConverged(r.cur, res) THEN "converged" ELSE ""]

\* the tail of refine_registration
IcpFinish(res, bench, el) == [result |-> res, bench |-> Observe(bench, "ICP", el, res)]

\* ------------------------------------------------ clouds handed to Ply(...)
\* A PointCloud object as its owner sees it: the points, and who computed
\* the normals it holds ("none": it holds none).
NoObj == [points |-> << >>, normals |-> "none"]

\* the normals a caller's cloud may come with: none, or the caller's own
CallerNormals(c) == IF c = << >> THEN {"none"} ELSE {"none", "caller"}

NoGiven == [source |-> [supplied |-> FALSE, orig |-> NoObj, now |-> NoObj],
            target |-> [supplied |-> FALSE, orig |-> NoObj, now |-> NoObj]]

\* PointCloud.estimate_normals works in place: it assigns every point of the
\* cloud a normal computed from the point's neighbours
EstimateNormals(obj) ==
    IF obj.points = << >> THEN obj ELSE [obj EXCEPT !.normals = "estimate_normals"]

\* the object handed over as pcd, once Ply.__init__ is through: self.pcd = pcd
\* keeps the object itself, and Ply._add_normals(self.pcd, ...), the last
\* step of a constructor that did not raise, estimates normals on it
GivenAfter(ply, obj) == IF ply.state = "built" THEN EstimateNormals(obj) ELSE obj

\* -------------------------------------------------------- VisualizeMatcher
\* The fields of a VisualizeMatcher after invoke():
\*   iter_num, max_iter   the loop counter of _worker_loop and its bound
\*   result               self._result: << >> for None, <<r>> otherwise
\*   queue                the callbacks posted with post_to_main_thread and
\*                        not yet run, oldest first
\*   main                 the main thread: "idle"; "set" once it has stored
\*                        the result of the callback `applying` in
\*                        self._result; "transform" while it runs
\*                        source.pcd.transform for it
\*   applied              the results whose callbacks have run, oldest first
\*   orig                 source.pcd as it was at invoke()
\*   reading, seen        registration_icp is copying source.pcd; the contents
\*                        source.pcd has had since the copy began
\*   icp_source           the copy registration_icp works on
\*   icp_calls            the calls of refine_registration made so far
NoViz == [active |-> FALSE, iter_num |-> 0, max_iter |-> 0, result |-> << >>,
          queue |-> << >>, main |-> "idle", applying |-> << >>, applied |-> << >>,
          orig |-> << >>, reading |-> FALSE, seen |-> {}, icp_source |-> << >>,
          icp_calls |-> 0]

\* Application.post_to_main_thread(window, callback): callbacks run on the
\* main thread one at a time, in the order they were posted
PostToMainThread(queue, res, is_icp) == Append(queue, [res |-> res, is_icp |-> is_icp])

\* a transform that hands back a moved copy and leaves the cloud as it was
PcdTransform_OutOfPlace(pcd, T) == pcd

\* self.source.pcd.transform(result.transformation): the cloud is moved in
\* place, from where the results applied before have left it
PcdTransform(pcd, T) == TransformCloud(T, pcd)

\* what a copy of a cloud can hold when the cloud went through the contents
\* `seen` while it was being copied: each point as one of them had it
Copies(seen) ==
    LET n == Len(CHOOSE v \in seen : TRUE)
    IN  {[i \in 1..n |-> f[i][i]] : f \in [1..n -> seen]}

\* ------------------------------------------------------------------ state
VARIABLES
    pc,          \* where the caller stands: start, srcBuilt, ready, failed,
                 \* ransac, ransacDone, icp, icpDone, raised
    voxel_size,  \* the voxel_size the caller passes to every stage
    bench,       \* the caller's benchmark_results
    src, tgt,    \* the two Ply objects
    reg,         \* locals of the running registration call
    result,      \* the RegistrationResult last returned
    err,         \* the exception a registration call raised, "" if none
    shadow,      \* outcomes of the last sink-touching stage, recomputed with
                 \* every other sink in place of bench
    given,       \* the PointCloud objects handed to Ply(..., pcd=...), as
                 \* their owner sees them
    viz          \* the fields of a VisualizeMatcher and the position of its
                 \* main thread

vars == <<pc, voxel_size, bench, src, tgt, reg, result, err, shadow, given, viz>>

Iterations == 0..MaxIter

Init ==
    /\ pc = "start"
    /\ voxel_size \in VoxelSizes
    /\ bench \in Sinks
    /\ src = Unbuilt
    /\ tgt = Unbuilt
    /\ reg = NoCall
    /\ result = DefaultResult
    /\ err = ""
    /\ shadow = {}
    /\ given = NoGiven
    /\ viz = NoViz

\* src_ply = Ply(...)
BuildSource ==
    /\ pc = "start"
    /\ \E arg \in PlyArgs, use_fpfh \in BOOLEAN, el \in Elapsed :
          LET r == PlyConstruct("source", arg, voxel_size, use_fpfh, bench, el)
          IN  /\ src' = r.ply
              /\ bench' = r.bench
              /\ pc' = IF r.ply.state = "built" THEN "srcBuilt" ELSE "failed"
              /\ shadow' = {PlyConstruct("source", arg, voxel_size, use_fpfh, b, el).ply :
                               b \in Sinks}
    /\ UNCHANGED <<voxel_size, tgt, reg, result, err, given, viz>>

\* tgt_ply = Ply(...)
BuildTarget ==
    /\ pc = "srcBuilt"
    /\ \E arg \in PlyArgs, use_fpfh \in BOOLEAN, el \in Elapsed :
          LET r == PlyConstruct("target", arg, voxel_size, use_fpfh, bench, el)
          IN  /\ tgt' = r.ply
              /\ bench' = r.bench
              /\ pc' = IF r.ply.state = "built" THEN "ready" ELSE "failed"
              /\ shadow' = {PlyConstruct("target", arg, voxel_size, use_fpfh, b, el).ply :
                               b \in Sinks}
    /\ UNCHANGED <<voxel_size, src, reg, result, err, given, viz>>

\* global_registration(src, tgt, voxel_size, iteration, benchmark_results)
\* up to the first pass of the RANSAC loop
GlobalRegistration ==
    /\ pc = "ready"
    /\ \E iteration \in Iterations :
          IF FeatureUnavailable(src, tgt)
          THEN /\ pc' = "raised"
               /\ err' = "ValueError"
               /\ reg' = [NoCall EXCEPT !.fn = "global_registration",
                                        !.max_iteration = iteration,
                                        !.benchAtCall = bench]
          ELSE \E pool \in FeaturePools(src.pcd_down, tgt.pcd_down) :
               /\ pc' = "ransac"
               /\ err' = ""
               /\ reg' = [NoCall EXCEPT !.fn = "global_registration",
                                        !.max_iteration = iteration,
                                        !.corres = pool,
                                        !.live = RansacEnters(pool, RansacThresh(voxel_size)),
                                        !.est_k = iteration,
                                        !.benchAtCall = bench]
    /\ UNCHANGED <<voxel_size, bench, src, tgt, result, shadow, given, viz>>

\* global_registration_without_fpfh(...) up to the first pass of the loop;
\* search_knn_vector_3d fails on an empty target tree
GlobalRegistrationWithoutFpfh ==
    /\ pc = "ready"
    /\ \E iteration \in Iterations :
          IF src.pcd_down # << >> /\ tgt.pcd_down = << >>
          THEN /\ pc' = "raised"
               /\ err' = "SearchError"
               /\ reg' = [NoCall EXCEPT !.fn = "global_registration_without_fpfh",
                                        !.max_iteration = iteration,
                                        !.benchAtCall = bench]
          ELSE \E pool \in NearestPools(src.pcd_down, tgt.pcd_down) :
               /\ pc' = "ransac"
               /\ err' = ""
               /\ reg' = [NoCall EXCEPT !.fn = "global_registration_without_fpfh",
                                        !.max_iteration = iteration,
                                        !.corres = pool,
                                        !.live = RansacEnters(pool, RansacThresh(voxel_size)),
                                        !.est_k = iteration,
                                        !.benchAtCall = bench]
    /\ UNCHANGED <<voxel_size, bench, src, tgt, result, shadow, given, viz>>

\* the samples of ransac_n = 3 pool entries; the draw is with replacement
\* and its order does not matter to the fit or the checkers, so the model
\* lists each sample once, in index order
Samples(n) == {<<i, j, k>> : i \in 1..n, j \in 1..n, k \in 1..n} \cap
              {t \in (1..n) \X (1..n) \X (1..n) : t[1] <= t[2] /\ t[2] <= t[3]}

\* a loop whose first pass runs before the bound is looked at
RansacIter_FirstPassUnconditional ==
    /\ pc = "ransac"
    /\ reg.live
    /\ reg.itr < reg.max_iteration \/ reg.itr = 0
    /\ \E sample \in Samples(Len(reg.corres)) :
       \E ps \in {SamplePoints(src.pcd_down, reg.corres, sample, 1)},
          pt \in {SamplePoints(tgt.pcd_down, reg.corres, sample, 2)} :
       \E T \in {ComputeTransformation(ps, pt)} :
       \E moved \in {TransformCloud(T, src.pcd_down)} :
       \E res \in {GetRegistrationResult(moved, tgt.pcd_down, RansacThresh(voxel_size), T)},
          n \in {InlierCorres(src.pcd_down, tgt.pcd_down, reg.corres, T,
                              RansacThresh(voxel_size))} :
          reg' = RansacStep([reg EXCEPT !.est_k = IF reg.itr = 0 /\ @ = 0 THEN 1 ELSE @],
                            ps, pt, T, res, n, RansacThresh(voxel_size))
    /\ UNCHANGED <<pc, voxel_size, bench, src, tgt, result, err, shadow, given, viz>>

\* one pass of the for loop over itr < max_iteration, on the sample (pool
\* indices) drawn in it
RansacIter ==
    /\ pc = "ransac"
    /\ reg.live
    /\ reg.itr < reg.max_iteration
    /\ \E sample \in Samples(Len(reg.corres)) :
       \E ps \in {SamplePoints(src.pcd_down, reg.corres, sample, 1)},
          pt \in {SamplePoints(tgt.pcd_down, reg.corres, sample, 2)} :
       \E T \in {ComputeTransformation(ps, pt)} :
       \E moved \in {TransformCloud(T, src.pcd_down)} :
       \E res \in {GetRegistrationResult(moved, tgt.pcd_down, RansacThresh(voxel_size), T)},
          n \in {InlierCorres(src.pcd_down, tgt.pcd_down, reg.corres, T,
                              RansacThresh(voxel_size))} :
          reg' = RansacStep(reg, ps, pt, T, res, n, RansacThresh(voxel_size))
    /\ UNCHANGED <<pc, voxel_size, bench, src, tgt, result, err, shadow, given, viz>>

\* the loop is over (or was never entered): record the observations, return
RansacReturn ==
    /\ pc = "ransac"
    /\ ~reg.live \/ reg.itr = reg.max_iteration
    /\ \E el \in Elapsed :
          LET r == RansacFinish(reg.fn, reg.best, bench, el)
          IN  /\ result' = r.result
              /\ bench' = r.bench
              /\ shadow' = {RansacFinish(reg.fn, reg.best, b, el).result : b \in Sinks}
    /\ pc' = "ransacDone"
    /\ UNCHANGED <<voxel_size, src, tgt, reg, err, given, viz>>

\* ---------------------------------------------------------- ICP refinement
\* Ply objects as the constructor leaves them for a cloud passed as pcd
BuiltPlys(name, v, use_fpfh) ==
    {r.ply : r \in {q \in {PlyConstruct(name,
                                        [path |-> "None", file |-> << >>,
                                         pcdGiven |-> TRUE, pcd |-> c],
                                        v, use_fpfh, NoSink, 1) : c \in Clouds} :
                     q.ply.state = "built"}}

\* two constructed Ply objects, ready for refine_registration
InitIcp ==
    /\ pc = "ready"
    /\ voxel_size \in {v \in VoxelSizes : v > 0}
    /\ bench \in Sinks
    /\ src \in BuiltPlys("source", voxel_size, FALSE)
    /\ tgt \in BuiltPlys("target", voxel_size, FALSE)
    /\ reg = NoCall
    /\ result = DefaultResult
    /\ err = ""
    /\ shadow = {}
    /\ given = NoGiven
    /\ viz = NoViz

\* refine_registration(src, tgt, init_trans, voxel_size, benchmark_results)
\* up to the first pass of the ICP loop
RefineRegistration ==
    /\ pc = "ready"
    /\ \E init \in InitTransforms :
          IF IcpRejects(tgt)
          THEN /\ pc' = "raised"
               /\ err' = "RuntimeError"
               /\ reg' = [NoCall EXCEPT !.fn = "refine_registration",
                                        !.max_iteration = IcpMaxIteration,
                                        !.benchAtCall = bench]
          ELSE /\ pc' = "icp"
               /\ err' = ""
               /\ reg' = [NoCall EXCEPT
                            !.fn = "refine_registration",
                            !.max_iteration = IcpMaxIteration,
                            !.benchAtCall = bench,
                            !.init = init,
                            !.transformation = init,
                            !.cur = GetRegistrationResult(TransformCloud(init, src.pcd),
                                        tgt.pcd, IcpThresh(voxel_size), init)]
    /\ UNCHANGED <<voxel_size, bench, src, tgt, result, shadow, given, viz>>

\* one pass of the for loop over i < max_iteration
IcpIter ==
    /\ pc = "icp"
    /\ reg.stop = ""
    /\ reg.itr < reg.max_iteration
    /\ \E solved \in BOOLEAN, shift \in Shifts(reg.transformation, reg.init) :
          reg' = IcpStep(reg, src.pcd, tgt.pcd, IcpThresh(voxel_size), solved, shift)
    /\ UNCHANGED <<pc, voxel_size, bench, src, tgt, result, err, shadow, given, viz>>

\* the loop is over: record the observations, return
IcpReturn ==
    /\ pc = "icp"
    /\ reg.stop # "" \/ reg.itr = reg.max_iteration
    /\ \E el \in Elapsed :
          LET r == IcpFinish(reg.cur, bench, el)
          IN  /\ result' = r.result
              /\ bench' = r.bench
              /\ shadow' = {IcpFinish(reg.cur, b, el).result : b \in Sinks}
    /\ pc' = "icpDone"
    /\ UNCHANGED <<voxel_size, src, tgt, reg, err, given, viz>>

\* a second Ply built from the down-sampled cloud of the first:
\* Ply(None, voxel_size, pcd=src_ply.pcd_down)
BuildFromDown ==
    /\ pc = "srcBuilt"
    /\ \E use_fpfh \in BOOLEAN, el \in Elapsed :
          LET r == PlyConstruct("target",
                                [path |-> "None", file |-> << >>, pcdGiven |-> TRUE,
                                 pcd |-> src.pcd_down],
                                voxel_size, use_fpfh, bench, el)
          IN  /\ tgt' = r.ply
              /\ bench' = r.bench
              /\ pc' = IF r.ply.state = "built" THEN "ready" ELSE "failed"
              /\ shadow' = {PlyConstruct("target",
                                         [path |-> "None", file |-> << >>,
                                          pcdGiven |-> TRUE, pcd |-> src.pcd_down],
                                         voxel_size, use_fpfh, b, el).ply : b \in Sinks}
    /\ UNCHANGED <<voxel_size, src, reg, result, err, given, viz>>

\* Ply(None, voxel_size, use_fpfh=..., pcd=obj) on a cloud object the caller
\* keeps a reference to
ConstructSource ==
    /\ pc = "start"
    /\ \E c \in Clouds, use_fpfh \in BOOLEAN, el \in Elapsed :
       \E nrm \in CallerNormals(c) :
          LET obj == [points |-> c, normals |-> nrm]
              arg == [path |-> "None", file |-> << >>, pcdGiven |-> TRUE, pcd |-> c]
              r == PlyConstruct("source", arg, voxel_size, use_fpfh, bench, el)
          IN  /\ src' = r.ply
              /\ bench' = r.bench
              /\ pc' = IF r.ply.state = "built" THEN "srcBuilt" ELSE "failed"
              /\ shadow' = {PlyConstruct("source", arg, voxel_size, use_fpfh, b, el).ply :
                               b \in Sinks}
              /\ given' = [given EXCEPT !.source = [supplied |-> TRUE, orig |-> obj,
                                                    now |-> GivenAfter(r.ply, obj)]]
    /\ UNCHANGED <<voxel_size, tgt, reg, result, err, viz>>

ConstructTarget ==
    /\ pc = "srcBuilt"
    /\ \E c \in Clouds, use_fpfh \in BOOLEAN, el \in Elapsed :
       \E nrm \in CallerNormals(c) :
          LET obj == [points |-> c, normals |-> nrm]
              arg == [path |-> "None", file |-> << >>, pcdGiven |-> TRUE, pcd |-> c]
              r == PlyConstruct("target", arg, voxel_size, use_fpfh, bench, el)
          IN  /\ tgt' = r.ply
              /\ bench' = r.bench
              /\ pc' = IF r.ply.state = "built" THEN "ready" ELSE "failed"
              /\ shadow' = {PlyConstruct("target", arg, voxel_size, use_fpfh, b, el).ply :
                               b \in Sinks}
              /\ given' = [given EXCEPT !.target = [supplied |-> TRUE, orig |-> obj,
                                                    now |-> GivenAfter(r.ply, obj)]]
    /\ UNCHANGED <<voxel_size, src, reg, result, err, viz>>

\* ------------------------------------------ VisualizeMatcher._worker_loop
\* `while self.iter_num < self.max_iter:` entered, and the call
\* global_registration(source, target, voxel_size, iteration=1, ...) up to
\* the first pass of the RANSAC loop
WorkerRansacCall ==
    /\ viz.active
    /\ pc = "loop"
    /\ viz.iter_num < viz.max_iter
    /\ IF FeatureUnavailable(src, tgt)
       THEN /\ pc' = "raised"
            /\ err' = "ValueError"
            /\ reg' = [NoCall EXCEPT !.fn = "global_registration",
                                     !.max_iteration = 1,
                                     !.benchAtCall = bench]
       ELSE \E pool \in FeaturePools(src.pcd_down, tgt.pcd_down) :
            /\ pc' = "ransac"
            /\ err' = ""
            /\ reg' = [NoCall EXCEPT !.fn = "global_registration",
                                     !.max_iteration = 1,
                                     !.corres = pool,
                                     !.live = RansacEnters(pool, RansacThresh(voxel_size)),
                                     !.est_k = 1,
                                     !.benchAtCall = bench]
    /\ UNCHANGED <<voxel_size, bench, src, tgt, result, shadow, given, viz>>

\* `self.iter_num += 1` and the post of _apply_result(result) to the main
\* thread (the elapsed time posted with it goes to the log label only); the
\* locals of the call that returned are gone
WorkerPost ==
    /\ viz.active
    /\ pc = "ransacDone"
    /\ viz' = [viz EXCEPT !.iter_num = @ + 1,
                          !.queue = PostToMainThread(@, result, FALSE)]
    /\ pc' = "loop"
    /\ reg' = NoCall
    /\ UNCHANGED <<voxel_size, bench, src, tgt, result, err, shadow, given>>

\* the while test fails; `if self._result is not None:`
WorkerLoopExit ==
    /\ viz.active
    /\ pc = "loop"
    /\ ~(viz.iter_num < viz.max_iter)
    /\ pc' = IF viz.result = << >> THEN "workerDone" ELSE "icpArgs"
    /\ UNCHANGED <<voxel_size, bench, src, tgt, reg, result, err, shadow, given, viz>>

\* refine_registration(source, target, self._result.transformation,
\* voxel_size, ...): the argument is read, and registration_icp starts on a
\* copy of source.pcd that it makes first
WorkerIcpCall ==
    /\ viz.active
    /\ pc = "icpArgs"
    /\ IF IcpRejects(tgt)
       THEN /\ pc' = "raised"
            /\ err' = "RuntimeError"
            /\ reg' = [NoCall EXCEPT !.fn = "refine_registration",
                                     !.max_iteration = IcpMaxIteration,
                                     !.benchAtCall = bench]
            /\ viz' = [viz EXCEPT !.icp_calls = @ + 1]
       ELSE /\ pc' = "icpCopy"
            /\ err' = ""
            /\ reg' = [NoCall EXCEPT !.fn = "refine_registration",
                                     !.max_iteration = IcpMaxIteration,
                                     !.benchAtCall = bench,
                                     !.init = viz.result[1].transformation,
                                     !.transformation = viz.result[1].transformation]
            /\ viz' = [viz EXCEPT
                         !.icp_calls = @ + 1,
                         !.reading = TRUE,
                         !.seen = IF viz.main = "transform"
                                  THEN {src.pcd,
                                        PcdTransform(src.pcd, viz.applying[1].res.transformation)}
                                  ELSE {src.pcd}]
    /\ UNCHANGED <<voxel_size, bench, src, tgt, result, shadow, given>>

\* the copy is made; the start of registration_icp on it
WorkerIcpCopied ==
    /\ viz.active
    /\ pc = "icpCopy"
    /\ \E copy \in Copies(viz.seen) :
          /\ viz' = [viz EXCEPT !.reading = FALSE, !.seen = {}, !.icp_source = copy]
          /\ reg' = [reg EXCEPT !.cur = GetRegistrationResult(
                                           TransformCloud(reg.init, copy), tgt.pcd,
                                           IcpThresh(voxel_size), reg.init)]
    /\ pc' = "icp"
    /\ UNCHANGED <<voxel_size, bench, src, tgt, result, err, shadow, given>>

\* one pass of the ICP loop, on the copy; the increments enumerated here
\* never move the pose back
WorkerIcpIter ==
    /\ viz.active
    /\ pc = "icp"
    /\ reg.stop = ""
    /\ reg.itr < reg.max_iteration
    /\ \E solved \in BOOLEAN,
          shift \in {d \in Shifts(reg.transformation, reg.init) : d >= 0} :
          reg' = IcpStep(reg, viz.icp_source, tgt.pcd, IcpThresh(voxel_size), solved, shift)
    /\ UNCHANGED <<pc, voxel_size, bench, src, tgt, result, err, shadow, given, viz>>

\* the post of _apply_result(icp_result, is_icp=True); the thread ends, the
\* call's locals and its copy of the source are gone
WorkerPostIcp ==
    /\ viz.active
    /\ pc = "icpDone"
    /\ viz' = [viz EXCEPT !.queue = PostToMainThread(@, result, TRUE),
                          !.icp_source = << >>]
    /\ pc' = "workerDone"
    /\ reg' = NoCall
    /\ UNCHANGED <<voxel_size, bench, src, tgt, result, err, shadow, given>>

\* ------------------------------------------ VisualizeMatcher._apply_result
\* the main thread takes the oldest posted callback: `self._result = result`
ApplyResultBegin ==
    /\ viz.active
    /\ viz.main = "idle"
    /\ viz.queue # << >>
    /\ viz' = [viz EXCEPT !.queue = Tail(@),
                          !.applying = <<Head(viz.queue)>>,
                          !.result = <<Head(viz.queue).res>>,
                          !.main = "set"]
    /\ UNCHANGED <<pc, voxel_size, bench, src, tgt, reg, result, err, shadow, given>>

\* self.source.pcd.transform(result.transformation) starts moving the points
ApplyTransformBegin ==
    /\ viz.active
    /\ viz.main = "set"
    /\ viz' = [viz EXCEPT
                 !.main = "transform",
                 !.seen = IF viz.reading
                          THEN @ \cup {PcdTransform(src.pcd,
                                                    viz.applying[1].res.transformation)}
                          ELSE @]
    /\ UNCHANGED <<pc, voxel_size, bench, src, tgt, reg, result, err, shadow, given>>

\* source.pcd.transform(...) is through; the scene, the labels and the log
\* are refreshed
ApplyResultEnd ==
    /\ viz.active
    /\ viz.main = "transform"
    /\ src' = [src EXCEPT !.pcd = PcdTransform(@, viz.applying[1].res.transformation)]
    /\ viz' = [viz EXCEPT !.main = "idle",
                          !.applying = << >>,
                          !.applied = Append(@, viz.applying[1].res)]
    /\ UNCHANGED <<pc, voxel_size, bench, tgt, reg, result, err, shadow, given>>

\* --------------------------------------------------------- specifications
\* the callers of src/main.py and src/benchmark.py: two Ply objects, then a
\* registration stage on them
Next ==
    \/ BuildSource
    \/ BuildTarget
    \/ GlobalRegistration
    \/ GlobalRegistrationWithoutFpfh
    \/ RansacIter
    \/ RansacReturn
    \/ RefineRegistration
    \/ IcpIter
    \/ IcpReturn

Spec == Init /\ [][Next]_vars

\* Ply construction and RANSAC global registration alone
NextRansac ==
    \/ BuildSource
    \/ BuildTarget
    \/ GlobalRegistration
    \/ GlobalRegistrationWithoutFpfh
    \/ RansacIter
    \/ RansacReturn

SpecRansac == Init /\ [][NextRansac]_vars

\* two constructed Ply objects, with or without descriptors, ready for a
\* RANSAC registration
InitRansac ==
    /\ pc = "ready"
    /\ voxel_size \in {v \in VoxelSizes : v > 0}
    /\ bench = EmptySink
    /\ src \in BuiltPlys("source", voxel_size, FALSE) \cup BuiltPlys("source", voxel_size, TRUE)
    /\ tgt \in BuiltPlys("target", voxel_size, FALSE) \cup BuiltPlys("target", voxel_size, TRUE)
    /\ reg = NoCall
    /\ result = DefaultResult
    /\ err = ""
    /\ shadow = {}
    /\ given = NoGiven
    /\ viz = NoViz

\* one RANSAC registration call
NextCall ==
    \/ GlobalRegistration
    \/ GlobalRegistrationWithoutFpfh
    \/ RansacIter
    \/ RansacReturn

\* the RANSAC loop is a plain for loop: a call that has started keeps
\* running until it returns
FairRansac ==
    InitRansac /\ [][NextCall]_vars /\ WF_vars(RansacIter) /\ WF_vars(RansacReturn)

\* every registration call on two constructed Ply objects
NextRegistration ==
    \/ GlobalRegistration
    \/ GlobalRegistrationWithoutFpfh
    \/ RansacIter
    \/ RansacReturn
    \/ RefineRegistration
    \/ IcpIter
    \/ IcpReturn

SpecRegistration == InitRansac /\ [][NextRegistration]_vars

\* down-sampling twice: a Ply, then a Ply of its down-sampled cloud
NextVoxel ==
    \/ BuildSource
    \/ BuildFromDown

SpecVoxel == Init /\ [][NextVoxel]_vars

\* refine_registration alone, on Ply objects already constructed
NextIcp ==
    \/ RefineRegistration
    \/ IcpIter
    \/ IcpReturn

SpecIcp == InitIcp /\ [][NextIcp]_vars

\* a caller without a sink builds both Ply objects from clouds of its own
\* and runs a registration stage on them
InitGiven ==
    /\ pc = "start"
    /\ voxel_size \in VoxelSizes
    /\ bench = NoSink
    /\ src = Unbuilt
    /\ tgt = Unbuilt
    /\ reg = NoCall
    /\ result = DefaultResult
    /\ err = ""
    /\ shadow = {}
    /\ given = NoGiven
    /\ viz = NoViz

NextGiven ==
    \/ ConstructSource
    \/ ConstructTarget
    \/ GlobalRegistration
    \/ GlobalRegistrationWithoutFpfh
    \/ RansacIter
    \/ RansacReturn
    \/ RefineRegistration
    \/ IcpIter
    \/ IcpReturn

SpecGiven == InitGiven /\ [][NextGiven]_vars

\* VisualizeMatcher(source, target).invoke(voxel_size, ransac_iteration):
\* the worker thread stands before its loop, the main thread is idle
InitViz ==
    /\ pc = "loop"
    /\ voxel_size \in {v \in VoxelSizes : v > 0}
    /\ bench = EmptySink
    /\ src \in BuiltPlys("source", voxel_size, FALSE) \cup BuiltPlys("source", voxel_size, TRUE)
    /\ tgt \in BuiltPlys("target", voxel_size, FALSE) \cup BuiltPlys("target", voxel_size, TRUE)
    /\ reg = NoCall
    /\ result = DefaultResult
    /\ err = ""
    /\ shadow = {}
    /\ given = NoGiven
    /\ \E ransac_iteration \in Iterations :
          viz = [NoViz EXCEPT !.active = TRUE, !.max_iter = ransac_iteration,
                              !.orig = src.pcd]

NextViz ==
    \/ WorkerRansacCall
    \/ RansacIter
    \/ RansacReturn
    \/ WorkerPost
    \/ WorkerLoopExit
    \/ WorkerIcpCall
    \/ WorkerIcpCopied
    \/ WorkerIcpIter
    \/ IcpReturn
    \/ WorkerPostIcp
    \/ ApplyResultBegin
    \/ ApplyTransformBegin
    \/ ApplyResultEnd

SpecViz == InitViz /\ [][NextViz]_vars

\* the rigid motions the demo moves its target by: a shift by one step, the
\* half turn that maps the sampled cloud onto itself
DemoMotions == {[s |-> 1, t |-> Step], [s |-> 0 - 1, t |-> 2 * Step]}

\* the demo under `if __name__ == "__main__":`: the source is a cloud
\* sampled from a mesh, the target the same cloud moved by a rigid motion,
\* both built with descriptors (Ply.from_bunny), and
\* visualizer.invoke(voxel_size, ransac_iteration=3, ...)
BunnySample == <<0, Step, 2 * Step>>

DemoRansacIteration == 3

InitDemo ==
    /\ pc = "loop"
    /\ voxel_size \in {v \in VoxelSizes : v > 0}
    /\ bench = EmptySink
    /\ \E M \in DemoMotions :
          /\ src = PlyConstruct("bunny_source",
                                [path |-> "None", file |-> << >>, pcdGiven |-> TRUE,
                                 pcd |-> BunnySample],
                                voxel_size, TRUE, NoSink, 1).ply
          /\ tgt = PlyConstruct("bunny_target",
                                [path |-> "None", file |-> << >>, pcdGiven |-> TRUE,
                                 pcd |-> TransformCloud(M, BunnySample)],
                                voxel_size, TRUE, NoSink, 1).ply
    /\ reg = NoCall
    /\ result = DefaultResult
    /\ err = ""
    /\ shadow = {}
    /\ given = NoGiven
    /\ viz = [NoViz EXCEPT !.active = TRUE, !.max_iter = DemoRansacIteration,
                           !.orig = BunnySample]

SpecDemo == InitDemo /\ [][NextViz]_vars

\* ------------------------------------------------------------------ claims
RansacFns == {"global_registration", "global_registration_without_fpfh"}

\* a RANSAC call is past its entry (the pool is built)
InRansac == reg.fn \in RansacFns /\ pc \in {"ransac", "ransacDone"}

RansacDone == reg.fn \in RansacFns /\ pc = "ransacDone"

\* C1: RANSAC run with max_iterations = 0 keeps and returns the identity
\* transform with fitness 0, without raising, whatever the pool (three
\* entries or more, or fewer).
C1_ZeroIterationsIdentity ==
    (InRansac /\ reg.max_iteration = 0) =>
        /\ reg.best.transformation = [s |-> 1, t |-> 0]
        /\ reg.best.fitness.num = 0
        /\ err = ""
        /\ pc = "ransacDone" => (/\ result.transformation = [s |-> 1, t |-> 0]
                                 /\ result.fitness.num = 0)

\* a zero-iteration run has returned on a pool that could have been sampled
C1_Witness ==
    /\ RansacDone
    /\ reg.max_iteration = 0
    /\ Len(reg.corres) >= 3

\* the clouds and the threshold a registration call works on
CallSource == IF reg.fn = "refine_registration" THEN src.pcd ELSE src.pcd_down

CallTarget == IF reg.fn = "refine_registration" THEN tgt.pcd ELSE tgt.pcd_down

CallThresh == IF reg.fn = "refine_registration" THEN IcpThresh(voxel_size)
              ELSE RansacThresh(voxel_size)

\* the results a call holds or has returned
HeldResults ==
    (IF InRansac THEN {reg.best} ELSE {})
    \cup (IF reg.fn = "refine_registration" /\ pc \in {"icp", "icpDone"} THEN {reg.cur} ELSE {})
    \cup (IF pc \in {"ransacDone", "icpDone"} THEN {result} ELSE {})

\* the source points the result's transform brings strictly inside the
\* threshold of some target point
InlierSet(r) ==
    {i \in 1..Len(CallSource) :
        \E j \in 1..Len(CallTarget) :
            CallThresh.den * Abs(Apply(r.transformation, CallSource[i]) - CallTarget[j])
                < CallThresh.num}

InRange(r) ==
    /\ 0 <= r.fitness.num /\ r.fitness.num <= r.fitness.den /\ r.fitness.den >= 1
    /\ r.inlier_rmse.err2 >= 0 /\ r.inlier_rmse.cnt >= 1

\* a result that came out of an evaluation of its transform: every result
\* but the empty one RANSAC holds until a sample is accepted
Evaluated(r) == r # DefaultResult

\* C2 as stated, for the evaluated results: fitness in [0, 1] and
\* inlier_rmse >= 0, with fitness = inliers / |target points|.
C2_FitnessOverTarget ==
    \A r \in HeldResults :
        /\ InRange(r)
        /\ Evaluated(r) =>
               r.fitness.num * Len(CallTarget) = Cardinality(InlierSet(r)) * r.fitness.den

\* C2 (amended): every result held or returned by RANSAC or ICP has fitness
\* in [0, 1] and inlier_rmse >= 0; in every evaluated result the inliers are
\* the transformed source points strictly within the threshold of a target
\* point, one correspondence each, and fitness = inliers / |source points|.
C2_FitnessOverSource ==
    \A r \in HeldResults :
        /\ InRange(r)
        /\ Evaluated(r) =>
              /\ {r.correspondence_set[k][1] : k \in 1..Len(r.correspondence_set)}
                     = InlierSet(r)
              /\ Len(r.correspondence_set) = Cardinality(InlierSet(r))
              /\ r.fitness.num * Len(CallSource)
                     = Cardinality(InlierSet(r)) * r.fitness.den

\* a returned result with some but not all source points inliers, a
\* positive rmse, and a target of another size than the source
C2_Witness ==
    /\ pc \in {"ransacDone", "icpDone"}
    /\ 0 < result.fitness.num /\ result.fitness.num < result.fitness.den
    /\ result.inlier_rmse.err2 > 0
    /\ Len(CallSource) # Len(CallTarget)

\* C3: global_registration on a source or target without descriptors raises
\* before any RANSAC pass: no pool, no sample, no result, and the sink is as
\* it was at the call.
C3_FeatureUnavailableRaises ==
    (reg.fn = "global_registration" /\ (~src.has_fpfh \/ ~tgt.has_fpfh)) =>
        /\ pc = "raised"
        /\ err = "ValueError"
        /\ reg.corres = << >> /\ reg.itr = 0 /\ reg.drawn = 0
        /\ result = DefaultResult
        /\ bench = reg.benchAtCall

\* the call was refused for the target's missing descriptors alone, with a
\* sink at hand that could have been written
C3_Witness ==
    /\ reg.fn = "global_registration"
    /\ pc = "raised"
    /\ src.has_fpfh /\ ~tgt.has_fpfh
    /\ bench.present

\* C4 as stated: RANSAC on a pool of fewer than 3 entries fails
\* (InsufficientCorrespondences), so no such call gets past the pool.
C4_InsufficientRaises ==
    InRansac => Len(reg.corres) >= 3

\* C4 (amended): RANSAC on a pool of fewer than 3 entries does not fail: it
\* returns the identity transform with fitness 0 without drawing a sample;
\* on a larger pool, if no drawn sample passes the checkers within
\* max_iterations, it returns the identity transform with fitness 0 too.
C4_FewOrExhaustedIsIdentity ==
    /\ (InRansac /\ Len(reg.corres) < 3) =>
            (err = "" /\ reg.drawn = 0 /\ reg.best = DefaultResult)
    /\ (RansacDone /\ (Len(reg.corres) < 3 \/ reg.passed = 0)) =>
            /\ err = ""
            /\ result.transformation = [s |-> 1, t |-> 0]
            /\ result.fitness.num = 0

\* a call asked for at least one iteration has returned on a pool of one or
\* two entries
C4_Witness ==
    /\ RansacDone
    /\ reg.max_iteration > 0
    /\ Len(reg.corres) \in {1, 2}

Converged == RansacDone /\ result.fitness.num > 0

Exhausted == RansacDone /\ result = DefaultResult

\* the bounds and the terminal states of a run
RansacBounded ==
    /\ InRansac => (reg.drawn <= reg.itr /\ reg.itr <= reg.max_iteration)
    /\ RansacDone => (Converged # Exhausted)

\* C5: every RANSAC run that has started reaches a terminal state, which is
\* exactly one of Converged and Exhausted; it makes at most max_iterations
\* passes; nothing changes a run that has reached its terminal state.
C5_RansacTerminates ==
    /\ []RansacBounded
    /\ [][RansacDone => (pc' = pc /\ reg' = reg /\ result' = result)]_vars
    /\ (pc = "ransac") ~> (pc = "ransacDone")

\* a run has used up all its iterations and returned a fitted transform
C5_Witness ==
    /\ Converged
    /\ reg.max_iteration = MaxIter
    /\ reg.itr = reg.max_iteration
    /\ reg.drawn = reg.max_iteration

InIcp == reg.fn = "refine_registration" /\ pc \in {"icp", "icpDone"}

\* the pass just made satisfied the break test
BothDeltasBelow ==
    FitnessDeltaBelowEps(reg.backup, reg.cur) /\ RmseDeltaBelowEps(reg.backup, reg.cur)

\* the loop has left its for statement
IcpStopped == reg.stop = "converged" \/ reg.itr = IcpMaxIteration

\* C6: the ICP loop stops exactly when, between two consecutive passes, both
\* |delta fitness| and |delta rmse| are below their tolerances, or when
\* max_iteration passes are made: never more than max_iteration passes, no
\* pass after the stop condition, and no return before it (in particular
\* not with one delta alone below its tolerance).
C6_IcpStopsExactly ==
    /\ [](InIcp => /\ reg.itr <= IcpMaxIteration
                   /\ (reg.stop = "converged") = (reg.itr >= 1 /\ BothDeltasBelow)
                   /\ pc = "icpDone" => IcpStopped)
    /\ [][(pc = "icp" /\ IcpStopped) => (pc' = "icpDone" /\ reg' = reg)]_vars
    /\ [][(pc = "icp" /\ ~IcpStopped) => (pc' = "icp" /\ reg'.itr = reg.itr + 1)]_vars

\* the loop goes on after a pass that left the fitness where it was and
\* moved the rmse
C6_Witness ==
    /\ InIcp /\ pc = "icp"
    /\ reg.itr >= 2
    /\ FitnessDeltaBelowEps(reg.backup, reg.cur)
    /\ ~RmseDeltaBelowEps(reg.backup, reg.cur)
    /\ reg.stop = ""

\* C7: an ICP pass whose normal equations cannot be solved leaves the
\* transform of the pass before it (the initial transform on the first
\* pass) in place and ends the loop; ICP then returns that transform and
\* raises nothing.
C7_DegenerateKeepsLastTransform ==
    /\ [][(pc = "icp" /\ reg'.itr = reg.itr + 1 /\ reg'.degenerate) =>
             /\ reg'.transformation = reg.transformation
             /\ reg'.cur.transformation = reg.transformation
             /\ reg'.stop = "converged"]_vars
    /\ [][(pc = "icp" /\ pc' = "icpDone") =>
             /\ result' = reg.cur
             /\ result'.transformation = reg.transformation
             /\ err' = ""]_vars
    /\ []((InIcp /\ reg.itr = 0) => reg.transformation = reg.init)

\* ICP has returned after a pass that could not be solved, the passes
\* before it having moved the pose away from the initial one
C7_Witness ==
    /\ InIcp /\ pc = "icpDone"
    /\ reg.degenerate
    /\ reg.itr >= 2
    /\ result.transformation # reg.init
    /\ result.fitness.num > 0

\* the outcome of the stage that last wrote to the sink
LastOutcome ==
    IF pc \in {"ransacDone", "icpDone"} THEN result
    ELSE IF tgt.state # "unbuilt" THEN tgt
    ELSE src

\* C8: the sink is write-only: Ply construction, both RANSAC registrations
\* and ICP end with the same outcome (the constructed or failed Ply with
\* the stages it went through, the returned result) whether
\* benchmark_results is None, empty, or already holds entries.
C8_SinkInformational ==
    pc # "start" => shadow = {LastOutcome}

\* RANSAC with descriptors has returned a fitted transform to a caller whose
\* sink already held an entry under the stage's label
C8_Witness ==
    /\ RansacDone
    /\ reg.fn = "global_registration"
    /\ reg.benchAtCall.present
    /\ RansacLabel(reg.fn) \in DOMAIN reg.benchAtCall.timings
    /\ result.fitness.num > 0

\* the second Ply was built from the first one's down-sampled cloud
TwiceDownSampled ==
    /\ src.state = "built" /\ tgt.state = "built"
    /\ tgt.pcd = src.pcd_down
    /\ tgt.pcd # << >>

\* no two points of the cloud are closer than v
Separated(pts, v) ==
    \A i, j \in 1..Len(pts) : i # j => Dist(pts[i], pts[j]) >= v

C10_InvalidInputFailsFirst ==
    \A ply \in {src, tgt} :
        /\ ply.state = "built" => (ply.pcd # << >> /\ voxel_size > 0)
        /\ ply.state = "failed" => ply.stages = << >>

\* C11 as stated: the core never mutates a point cloud supplied by the
\* caller: after Ply construction from a supplied pcd, and after either
\* RANSAC registration or ICP refinement on the resulting Ply objects, the
\* caller's cloud holds the points and the normals it held when handed over.
C11_SuppliedCloudUntouched ==
    \A side \in {"source", "target"} :
        given[side].supplied => given[side].now = given[side].orig

\* C12 as stated: no interleaving of the worker thread and the main thread
\* reaches a state where the main thread is writing source.pcd
\* (source.pcd.transform in _apply_result) while a registration stage on the
\* worker thread is reading it.
C12_NoConcurrentWriteAndRead ==
    ~(viz.active /\ viz.reading /\ viz.main = "transform")

\* the pool of a nearest-point registration is at hand
NearestCall == reg.fn = "global_registration_without_fpfh" /\ InRansac

\* the answer of the index to the query for source point i, and how far it
\* is from the query
Answer(i) == reg.corres[i][2]

AnswerDist(i) == Dist(src.pcd_down[i], tgt.pcd_down[Answer(i)])

\* the answer is one point of the index, and no point of the index is
\* nearer to the query
IsNearest(i) ==
    /\ Answer(i) \in 1..Len(tgt.pcd_down)
    /\ \A j \in 1..Len(tgt.pcd_down) : AnswerDist(i) <= Dist(src.pcd_down[i], tgt.pcd_down[j])

\* a query point that is in the index gets itself back, at distance 0
FindsItself(i) ==
    src.pcd_down[i] \in Range(tgt.pcd_down) =>
        (AnswerDist(i) = 0 /\ tgt.pcd_down[Answer(i)] = src.pcd_down[i])

SampleSource(s) == SamplePoints(src.pcd_down, reg.corres, s, 1)

SampleTarget(s) == SamplePoints(tgt.pcd_down, reg.corres, s, 2)

SampleFit(s) == ComputeTransformation(SampleSource(s), SampleTarget(s))

Candidate(s) ==
    GetRegistrationResult(TransformCloud(SampleFit(s), src.pcd_down), tgt.pcd_down,
                          RansacThresh(voxel_size), SampleFit(s))

\* drawing sample s takes the loop from r to r2 in one pass
Explains(s, r, r2) ==
    r2 = RansacStep(r, SampleSource(s), SampleTarget(s), SampleFit(s), Candidate(s),
                    InlierCorres(src.pcd_down, tgt.pcd_down, r.corres, SampleFit(s),
                                 RansacThresh(voxel_size)),
                    RansacThresh(voxel_size))

\* every pairwise edge-length ratio between the sampled source and target
\* points lies in [0.9, 1/0.9]
EdgeRatioOk(s) ==
    \A i, j \in 1..3 :
        /\ 9 * Dist(SampleTarget(s)[i], SampleTarget(s)[j])
               <= 10 * Dist(SampleSource(s)[i], SampleSource(s)[j])
        /\ 9 * Dist(SampleSource(s)[i], SampleSource(s)[j])
               <= 10 * Dist(SampleTarget(s)[i], SampleTarget(s)[j])

\* every transformed sampled source point lies within 1.5 * voxel_size of
\* its paired target point
WithinThreshold(s) ==
    \A k \in 1..3 :
        2 * Dist(Apply(SampleFit(s), SampleSource(s)[k]), SampleTarget(s)[k]) <= 3 * voxel_size

\* a is at least as good as b: higher fitness, or the same fitness and an
\* rmse that is not higher
AtLeastAsGood(a, b) ==
    \/ a.fitness.num * b.fitness.den > b.fitness.num * a.fitness.den
    \/ /\ a.fitness.num * b.fitness.den = b.fitness.num * a.fitness.den
       /\ a.inlier_rmse.err2 * b.inlier_rmse.cnt <= b.inlier_rmse.err2 * a.inlier_rmse.cnt

\* C14: after every pass of the RANSAC loop the retained result is at least
\* as good (higher fitness, then lower rmse) as the result retained before,
\* and after a pass that accepted a candidate (its sample passed the
\* checkers and was evaluated) at least as good as that candidate, so the
\* retained fitness never decreases and the retained result is at least as
\* good as every candidate accepted so far; the call returns the retained
\* result, not the last candidate.
C14_RetainsBest ==
    /\ [][(pc = "ransac" /\ pc' = "ransac" /\ reg' # reg) =>
             /\ AtLeastAsGood(reg'.best, reg.best)
             /\ reg'.best.fitness.num * reg.best.fitness.den
                    >= reg.best.fitness.num * reg'.best.fitness.den
             /\ reg'.passed # reg.passed =>
                    \A s \in Samples(Len(reg.corres)) :
                        (EdgeRatioOk(s) /\ WithinThreshold(s)) =>
                            \A c \in {Candidate(s)} :
                                AtLeastAsGood(reg'.best, c) \/ ~Explains(s, reg, reg')]_vars
    /\ [][(pc = "ransac" /\ pc' = "ransacDone") => result' = reg.best]_vars

\* a run that evaluated two candidates has returned a fitted result, and a
\* sample of its pool that passes both checkers evaluates strictly worse
\* than what it returned
C14_Witness ==
    /\ RansacDone
    /\ reg.passed >= 2
    /\ result.fitness.num > 0
    /\ \E s \in Samples(Len(reg.corres)) :
          /\ EdgeRatioOk(s) /\ WithinThreshold(s)
          /\ ~AtLeastAsGood(Candidate(s), result)

C16_OnePerSourcePoint ==
    NearestCall =>
        /\ Len(reg.corres) = Len(src.pcd_down)
        /\ \A i \in 1..Len(reg.corres) :
               /\ reg.corres[i][1] = i
               /\ reg.corres[i][2] \in 1..Len(tgt.pcd_down)
               /\ Dist(src.pcd_down[i], tgt.pcd_down[reg.corres[i][2]])
                      = NearestDist(src.pcd_down[i], tgt.pcd_down)
        /\ \A i, k \in 1..Len(reg.corres) : i # k => reg.corres[i][1] # reg.corres[k][1]

\* a pool of several entries in which two source points share a target
\* point
C16_Witness ==
    /\ NearestCall
    /\ Len(reg.corres) >= 2
    /\ \E i, k \in 1..Len(reg.corres) : i # k /\ reg.corres[i][2] = reg.corres[k][2]

\* the results the worker has posted so far, in the order they were posted:
\* those applied, the one being applied and those still queued
PostedResults ==
    viz.applied
        \o [k \in 1..Len(viz.applying) |-> viz.applying[k].res]
        \o [k \in 1..Len(viz.queue) |-> viz.queue[k].res]

\* the worker has handed its initial transform to ICP
IcpStarted == viz.active /\ pc \in {"icpCopy", "icp", "icpDone"}

\* C17 as stated: the initial transform the worker hands to ICP is the same
\* for every interleaving of the worker with the main thread's processing
\* of the posted callbacks.  The worker's RANSAC calls do not look at what
\* the main thread did, and the main thread may have stored any one of the
\* posted results when the worker reads it, so the transform handed over is
\* the same for every interleaving exactly when it is the transform of
\* every result posted.
C17_InitIndependentOfInterleaving ==
    IcpStarted =>
        \A k \in 1..Len(PostedResults) : PostedResults[k].transformation = reg.init

\* C18 as stated: iter_num never exceeds max_iter; ICP is not started
\* before the last RANSAC call has returned; and a worker that made
\* ransac_iteration >= 1 RANSAC calls has run ICP exactly once when it
\* ends.
C18_IcpOnceAfterRansac ==
    viz.active =>
        /\ viz.iter_num <= viz.max_iter
        /\ viz.icp_calls <= 1
        /\ viz.icp_calls = 1 => (viz.iter_num = viz.max_iter /\ pc \notin {"ransac", "ransacDone"})
        /\ (pc = "workerDone" /\ viz.max_iter >= 1) => viz.icp_calls = 1

\* rn o ... o r1 for the applied results r1..rn
RECURSIVE ComposeAll(_)
ComposeAll(rs) ==
    IF rs = << >> THEN Identity
    ELSE Compose(rs[Len(rs)].transformation, ComposeAll(SubSeq(rs, 1, Len(rs) - 1)))

\* the main thread is between two _apply_result calls
MainIdle == viz.active /\ viz.main = "idle"

\* the down-sampled cloud of the source as it was built
OrigDown == VoxelDownSample(viz.orig, voxel_size)

\* the displayed cloud is the original moved by all applied results, in the
\* order they were applied
Accumulated == src.pcd = TransformCloud(ComposeAll(viz.applied), viz.orig)

\* the displayed cloud is the original moved by the last applied result
\* alone
ShowsLastAlone ==
    /\ viz.applied # << >>
    /\ src.pcd = TransformCloud(viz.applied[Len(viz.applied)].transformation, viz.orig)

\* a RANSAC call has returned a fitted result, and it is the evaluation of
\* its transform on the source as it was built
RelativeToOriginal ==
    (viz.active /\ pc = "ransacDone" /\ result.fitness.num > 0) =>
        result = GetRegistrationResult(TransformCloud(result.transformation, OrigDown),
                                       tgt.pcd_down, RansacThresh(voxel_size),
                                       result.transformation)

\* C19 as stated: after the main thread has applied r1..rn, source.pcd is
\* the original cloud transformed by rn o ... o r1, source.pcd_down is as
\* it was built, every RANSAC result is relative to the original pose, and
\* the displayed cloud equals rn applied to the original only when n = 1.
C19_LastAloneOnlyWhenFirst ==
    /\ MainIdle => Accumulated
    /\ viz.active => src.pcd_down = OrigDown
    /\ RelativeToOriginal
    /\ (MainIdle /\ ShowsLastAlone) => Len(viz.applied) = 1

\* C19 (amended): after the main thread has applied r1..rn, source.pcd is
\* the original cloud transformed by rn o ... o r1, no step changes
\* source.pcd_down, every RANSAC result is relative to the original pose,
\* and the displayed cloud equals rn applied to the original exactly when
\* the results applied before rn together leave the original cloud where
\* it is: always when n = 1, and for n > 1 when, for instance, each of them
\* is the identity RANSAC returns when no sample passed the checkers.
C19_AccumulatesInPlace ==
    /\ [](MainIdle => Accumulated)
    /\ [](viz.active => src.pcd_down = OrigDown)
    /\ [][viz.active => src'.pcd_down = src.pcd_down]_vars
    /\ []RelativeToOriginal
    /\ []((MainIdle /\ viz.applied # << >>) =>
            (ShowsLastAlone <=>
                TransformCloud(ComposeAll(SubSeq(viz.applied, 1, Len(viz.applied) - 1)),
                               viz.orig) = viz.orig))

\* two or more results were applied, the displayed cloud is not the last
\* result applied to the original, and the down-sampled cloud is still in
\* its original pose
C19_Witness ==
    /\ MainIdle
    /\ Len(viz.applied) >= 2
    /\ ~ShowsLastAlone
    /\ src.pcd # viz.orig
    /\ src.pcd_down = OrigDown

====
